---- MODULE Spec2Model ----
(***************************************************************************)
(* Cap-table engine of the Startup Value Simulator:                        *)
(* FinancialEngine.calculateCapTable folds FinancialEngine.processRound    *)
(* over the rounds of a scenario, starting from createInitialState.        *)
(*                                                                         *)
(* Number representation.  The engine computes in IEEE doubles; the model  *)
(* computes the same quantities exactly:                                   *)
(*   - share counts and money amounts are integers;                        *)
(*   - percentages are integers in hundredths of a percent (the engine     *)
(*     rounds them with toFixed(2); createInitialState copies inputs that  *)
(*     are given with at most two decimals);                               *)
(*   - prices are reduced fractions [n, d], valuations mixed numbers       *)
(*     [w, n, d] = w + n/d;                                                *)
(*   - a result that is NaN or +-Infinity in the engine is recorded by     *)
(*     finite = FALSE (JSON.stringify turns both into null).               *)
(* Products are never formed directly: MulDivQR divides a product without  *)
(* leaving the 32-bit range of TLC's integers.                             *)
(***************************************************************************)
EXTENDS Integers, Sequences, FiniteSets, TLC

VARIABLES
    scenario,   \* the Scenario given to calculateCapTable: founders, esopPools, rounds
    states,     \* the local `states` array of calculateCapTable
    results,    \* the RoundCalculationResult of each processRound call, in order
    pc,         \* "start" | "folding" | "returned" | "thrown"
    exitSimulation, \* the ExitSimulation of the last FinancialEngine.simulateExit call
    errors,     \* the list of the last FinancialEngine.validateScenario call
    store       \* the zustand store: currentScenario, capTableStates, exitSimulation,
                \* exitValuation

\* What the calls outside calculateCapTable return.
api == <<exitSimulation, errors>>

vars == <<scenario, states, results, pc, exitSimulation, errors, store>>

(***************************************************************************)
(* Bounds of the exploration                                               *)
(***************************************************************************)
MaxRounds == 2

\* The number of store actions explored from the empty store.
MaxEdits == 4

(***************************************************************************)
(* Program constants                                                       *)
(***************************************************************************)
INITIAL_SHARES == 10000000

(***************************************************************************)
(* Exact arithmetic                                                        *)
(***************************************************************************)
Abs(x) == IF x < 0 THEN -x ELSE x

RECURSIVE GCD(_, _)
GCD(a, b) == IF b = 0 THEN a ELSE GCD(b, a % b)

\* <<q, r>> with a * b = q * c + r and 0 <= r < c, for a, b >= 0 and c > 0,
\* computed by binary long multiplication (over the bits of b) so that no
\* intermediate exceeds 3c.
RECURSIVE MulDivBits(_, _, _)
MulDivBits(a, b, c) ==
    IF b = 0 THEN <<0, 0>>
    ELSE LET h  == MulDivBits(a, b \div 2, c)
             ad == IF b % 2 = 1 THEN a ELSE 0
             r  == 2 * h[2] + (ad % c)
         IN  <<2 * h[1] + (ad \div c) + (r \div c), r % c>>

MulDivQR(a, b, c) == IF a < b THEN MulDivBits(b, a, c) ELSE MulDivBits(a, b, c)

\* floor(a * b / c) and the remainder, a of either sign, b >= 0, c > 0.
FloorQR(a, b, c) ==
    IF a >= 0 THEN MulDivQR(a, b, c)
    ELSE LET p == MulDivQR(-a, b, c)
         IN  IF p[2] = 0 THEN <<-p[1], 0>> ELSE <<-p[1] - 1, c - p[2]>>

\* Math.round(a * b / c): floor(x + 0.5), halves go up.
MathRound(a, b, c) ==
    LET p == FloorQR(a, b, c)
    IN  p[1] + (IF 2 * p[2] >= c THEN 1 ELSE 0)

\* parseFloat((a * b / c).toFixed(2)) is ToFixed(a, 100 * b, c) hundredths when
\* b carries the factor 100: rounds to the nearest integer, halves away from 0.
ToFixed(a, b, c) ==
    LET p == MulDivQR(Abs(a), b, c)
        m == p[1] + (IF 2 * p[2] >= c THEN 1 ELSE 0)
    IN  IF a < 0 THEN -m ELSE m

\* Fractions n/d with d > 0, kept reduced.
Frac(n, d) == LET g == GCD(Abs(n), d) IN [n |-> n \div g, d |-> d \div g]

FracLess(x, y) == MulDivQR(x.n, y.d, x.d)[1] < y.n

FracMin(x, y) == IF FracLess(y, x) THEN y ELSE x

FracMax(x, y) == IF FracLess(y, x) THEN x ELSE y

\* x * (num / den), cross-reduced first.
FracScale(x, num, den) ==
    LET g1 == GCD(x.n, den)
        g2 == GCD(num, x.d)
    IN  Frac((x.n \div g1) * (num \div g2), (x.d \div g2) * (den \div g1))

\* x * k as the mixed number w + n/d.
FracTimesInt(x, k) ==
    LET p == FloorQR(k, x.n, x.d)
    IN  [w |-> p[1], n |-> Frac(p[2], x.d).n, d |-> Frac(p[2], x.d).d]

Whole(k) == [w |-> k, n |-> 0, d |-> 1]

RECURSIVE SumSeq(_)
SumSeq(s) == IF s = <<>> THEN 0 ELSE Head(s) + SumSeq(Tail(s))

Field(s, f) == [i \in DOMAIN s |-> s[i][f]]

(***************************************************************************)
(* FinancialEngine.createInitialState                                      *)
(***************************************************************************)
\* Founder and pool percentages are in hundredths of a percent.
TotalEquityPercent(founders, esopPools) ==
    SumSeq(Field(founders, "initialEquity")) + SumSeq(Field(esopPools, "percentage"))

\* Mutant: the percentages must sum to exactly 100.
InitialEquityInvalid_Exact(founders, esopPools) ==
    TotalEquityPercent(founders, esopPools) # 10000

\* Math.abs(totalEquityPercent - 100) > 0.05
InitialEquityInvalid(founders, esopPools) ==
    Abs(TotalEquityPercent(founders, esopPools) - 10000) > 5

\* Mutant: the shares of the whole percents only.
SharesOfPercent_WholePercent(percentage, totalShares) ==
    (percentage \div 100) * (totalShares \div 100)

\* Math.round((percentage / 100) * totalShares)
SharesOfPercent(percentage, totalShares) == MathRound(percentage, totalShares, 10000)

CreateInitialState(founders, esopPools) ==
    [ totalShares |-> INITIAL_SHARES,
      finite      |-> TRUE,
      founders    |-> [i \in DOMAIN founders |->
                         [ id         |-> founders[i].id,
                           shares     |-> SharesOfPercent(founders[i].initialEquity, INITIAL_SHARES),
                           percentage |-> founders[i].initialEquity ]],
      esop        |-> [ shares     |-> SumSeq([i \in DOMAIN esopPools |->
                                         SharesOfPercent(esopPools[i].percentage, INITIAL_SHARES)]),
                        percentage |-> SumSeq(Field(esopPools, "percentage")) ],
      investors   |-> <<>> ]

(***************************************************************************)
(* FinancialEngine.processRound, step by step                              *)
(***************************************************************************)
\* Step 1: the pre-money ESOP adjustment (only when esopAdjustment.isPreMoney).
\* newTotalSharesPreMoney = existingNonESOPShares / (1 - target / 100), as <<q, r>>
\* over the divisor 100 - target.
NewTotalSharesPreMoney(w, adj) ==
    FloorQR(w.totalShares - w.esop.shares, 100, 100 - adj.newPoolPercentage)

RoundQR(p, c) == p[1] + (IF 2 * p[2] >= c THEN 1 ELSE 0)

\* Mutant: the founders are rescaled by totalShares / newTotal.
PreMoneyEsopStep_Rescaled(w, round) ==
    IF round.esopAdjustment.present /\ round.esopAdjustment.isPreMoney
    THEN LET adj      == round.esopAdjustment
             nt       == NewTotalSharesPreMoney(w, adj)
             c        == 100 - adj.newPoolPercentage
             total2   == RoundQR(nt, c)
             esop2    == w.esop.shares + RoundQR(<<nt[1] - w.totalShares, nt[2]>>, c)
         IN  [w EXCEPT !.totalShares = total2,
                       !.esop.shares = esop2,
                       !.founders    = [i \in DOMAIN w.founders |->
                           [w.founders[i] EXCEPT !.shares =
                               MathRound(w.founders[i].shares, w.totalShares, total2)]]]
    ELSE w

\* Mutant: the founders are rescaled onto the whole new total, pool included.
PreMoneyEsopStep_OnTotal(w, round) ==
    IF round.esopAdjustment.present /\ round.esopAdjustment.isPreMoney
    THEN LET adj      == round.esopAdjustment
             existing == w.totalShares - w.esop.shares
             nt       == NewTotalSharesPreMoney(w, adj)
             c        == 100 - adj.newPoolPercentage
             total2   == RoundQR(nt, c)
             esop2    == w.esop.shares + RoundQR(<<nt[1] - w.totalShares, nt[2]>>, c)
         IN  [w EXCEPT !.totalShares = total2,
                       !.esop.shares = esop2,
                       !.founders    = [i \in DOMAIN w.founders |->
                           [w.founders[i] EXCEPT !.shares =
                               MathRound(w.founders[i].shares, total2, existing)]]]
    ELSE w

PreMoneyEsopStep(w, round) ==
    IF round.esopAdjustment.present /\ round.esopAdjustment.isPreMoney
    THEN LET adj      == round.esopAdjustment
             existing == w.totalShares - w.esop.shares
             nt       == NewTotalSharesPreMoney(w, adj)
             c        == 100 - adj.newPoolPercentage
             total2   == RoundQR(nt, c)
             \* sharesToAddToESOP = newTotal - totalShares keeps newTotal's fraction
             esop2    == w.esop.shares + RoundQR(<<nt[1] - w.totalShares, nt[2]>>, c)
         IN  [w EXCEPT !.totalShares = total2,
                       !.esop.shares = esop2,
                       !.founders    = [i \in DOMAIN w.founders |->
                           [w.founders[i] EXCEPT !.shares =
                               MathRound(w.founders[i].shares, total2 - esop2, existing)]]]
    ELSE w

\* Mutant: the round is priced on the total before the pre-money resize.
PreMoneyShares_BeforeResize(pre, round) == pre.totalShares

\* preMoneyShares: the total share count the round is priced on.
PreMoneyShares(pre, round) == PreMoneyEsopStep(pre, round).totalShares

\* Step 2: founder secondary sale.
SecondaryFounder(w, round) ==
    IF round.founderSecondary.present
    THEN {i \in DOMAIN w.founders : w.founders[i].id = round.founderSecondary.founderId}
    ELSE {}

\* Mutant: the sold shares are issued on top of the total instead of transferred.
SecondaryStep_Issues(w, round) ==
    [w EXCEPT !.totalShares = @ + (IF SecondaryFounder(w, round) # {}
                                   THEN round.founderSecondary.sharesSold ELSE 0),
              !.founders = [i \in DOMAIN w.founders |->
        IF i \in SecondaryFounder(w, round)
        THEN [w.founders[i] EXCEPT !.shares = @ - round.founderSecondary.sharesSold]
        ELSE w.founders[i]]]

SecondaryStep(w, round) ==
    [w EXCEPT !.founders = [i \in DOMAIN w.founders |->
        IF i \in SecondaryFounder(w, round)
        THEN [w.founders[i] EXCEPT !.shares = @ - round.founderSecondary.sharesSold]
        ELSE w.founders[i]]]

NoPrice == [n |-> 0, d |-> 1]

SecondaryInvestor(w, round) ==
    [ id               |-> <<"investor-secondary", round.founderSecondary.founderId>>,
      shares           |-> round.founderSecondary.sharesSold,
      percentage       |-> 0,
      investmentAmount |-> round.founderSecondary.sharesSold * round.founderSecondary.salePrice,
      hasSharePrice    |-> FALSE,
      sharePrice       |-> NoPrice ]

\* Step 3, PRICED: preMoney / preMoneyShares; NaN when preMoneyValuation is undefined.
PricedTermsDefined(round) == round.pricedTerms.hasPreMoney

PricedSharePrice(round, preMoneyShares) ==
    Frac(round.pricedTerms.preMoneyValuation, preMoneyShares)

\* Step 3, SAFE.  The code tests the terms for truthiness, so an undefined term and
\* a term of 0 take the same branch: 0 stands for both.
CapSet(round) == round.safeTerms.valuationCap # 0

DiscountSet(round) == round.safeTerms.discount # 0

CapPrice(round, preMoneyShares) == Frac(round.safeTerms.valuationCap, preMoneyShares)

\* preRoundState.investors[length - 1]?.sharePrice || 1.0
AssumedPricedRoundPrice(pre) ==
    IF pre.investors # <<>> /\ pre.investors[Len(pre.investors)].hasSharePrice
    THEN pre.investors[Len(pre.investors)].sharePrice
    ELSE [n |-> 1, d |-> 1]

DiscountPrice(round, pre) ==
    FracScale(AssumedPricedRoundPrice(pre), 100 - round.safeTerms.discount, 100)

\* Mutant: the check of the terms is dropped.
SafeTermsMissing_Never(round) == FALSE

SafeTermsMissing(round) == ~CapSet(round) /\ ~DiscountSet(round)

\* Mutant: the higher of the two prices.
SafeSharePrice_Max(round, pre, preMoneyShares) ==
    IF CapSet(round) /\ DiscountSet(round)
    THEN FracMax(CapPrice(round, preMoneyShares), DiscountPrice(round, pre))
    ELSE IF CapSet(round) THEN CapPrice(round, preMoneyShares)
    ELSE DiscountPrice(round, pre)

SafeSharePrice(round, pre, preMoneyShares) ==
    IF CapSet(round) /\ DiscountSet(round)
    THEN FracMin(CapPrice(round, preMoneyShares), DiscountPrice(round, pre))
    ELSE IF CapSet(round) THEN CapPrice(round, preMoneyShares)
    ELSE DiscountPrice(round, pre)

RoundThrows(round) == round.type = "SAFE" /\ SafeTermsMissing(round)

RoundFinite(round) == round.type = "PRICED" => PricedTermsDefined(round)

SharePrice(round, pre, preMoneyShares) ==
    IF round.type = "PRICED"
    THEN PricedSharePrice(round, preMoneyShares)
    ELSE SafeSharePrice(round, pre, preMoneyShares)

\* newShares = Math.round(round.capitalRaised / sharePrice)
NewShares(round, sharePrice) == MathRound(round.capitalRaised, sharePrice.d, sharePrice.n)

\* Step 5: esop.shares = Math.round((target / 100) * totalShares), for any adjustment.
EsopOverwriteStep(w, round) ==
    IF round.esopAdjustment.present
    THEN [w EXCEPT !.esop.shares = MathRound(round.esopAdjustment.newPoolPercentage, w.totalShares, 100)]
    ELSE w

\* Step 6: the primary investor (if newShares > 0), then the secondary investor.
PrimaryInvestor(round, newShares, sharePrice) ==
    [ id               |-> <<"investor", round.id>>,
      shares           |-> newShares,
      percentage       |-> 0,
      investmentAmount |-> round.capitalRaised,
      hasSharePrice    |-> TRUE,
      sharePrice       |-> sharePrice ]

InvestorsStep(w, round, newShares, sharePrice, secondary) ==
    [w EXCEPT !.investors =
        @ \o (IF newShares > 0 THEN <<PrimaryInvestor(round, newShares, sharePrice)>> ELSE <<>>)
          \o secondary]

\* Steps 7 and 8: percentages, reconciliation on the largest stakeholder, toFixed(2).
\* Stakeholders in the order of founders.concat(investors, esop).
StakeholderShares(w) ==
    Field(w.founders, "shares") \o Field(w.investors, "shares") \o <<w.esop.shares>>

\* reduce((max, current) => current.percentage > max.percentage ? current : max):
\* the first stakeholder holding the largest percentage (totalShares > 0).
LargestStakeholder(w) ==
    LET sh == StakeholderShares(w)
    IN  CHOOSE i \in DOMAIN sh :
            /\ \A j \in DOMAIN sh : sh[j] <= sh[i]
            /\ \A j \in 1..(i - 1) : sh[j] < sh[i]

\* parseFloat((100 - totalPercentage).toFixed(2)), in hundredths.
Adjustment(w) ==
    ToFixed(w.totalShares - SumSeq(StakeholderShares(w)), 10000, w.totalShares)

\* percentage = shares / totalShares * 100; if (Math.abs(adjustment) > 0.005) the
\* largest stakeholder gets += adjustment; then parseFloat(percentage.toFixed(2)).
Percentage(shares, totalShares, isLargest, adjustment) ==
    ToFixed(shares, 10000, totalShares)
        + (IF isLargest /\ 2 * Abs(adjustment) > 1 THEN adjustment ELSE 0)

PercentagesStep(w) ==
    LET nf      == Len(w.founders)
        ni      == Len(w.investors)
        largest == LargestStakeholder(w)
        adj     == Adjustment(w)
    IN  [w EXCEPT
            !.founders  = [i \in DOMAIN w.founders |->
                [w.founders[i] EXCEPT !.percentage =
                    Percentage(w.founders[i].shares, w.totalShares, largest = i, adj)]],
            !.investors = [i \in DOMAIN w.investors |->
                [w.investors[i] EXCEPT !.percentage =
                    Percentage(w.investors[i].shares, w.totalShares, largest = nf + i, adj)]],
            !.esop.percentage =
                Percentage(w.esop.shares, w.totalShares, largest = nf + ni + 1, adj)]

\* A round whose share price is NaN: totalShares, every percentage and (when the
\* round adjusts the pool) esop.shares are NaN; NaN > 0 is false, so no primary
\* investor is pushed.  Non-finite fields are stored as 0 under finite = FALSE.
NonFiniteState(w, round, secondary) ==
    [ totalShares |-> 0,
      finite      |-> FALSE,
      founders    |-> [i \in DOMAIN w.founders |-> [w.founders[i] EXCEPT !.percentage = 0]],
      esop        |-> [ shares     |-> IF round.esopAdjustment.present THEN 0 ELSE w.esop.shares,
                        percentage |-> 0 ],
      investors   |-> [i \in DOMAIN (w.investors \o secondary) |->
                         [(w.investors \o secondary)[i] EXCEPT !.percentage = 0]] ]

\* processRound, from step 4 on: the shares are issued, the pool is overwritten,
\* the investors are pushed and the percentages computed.
IssueStep(round, w2, secondary, sharePrice, newShares, preMoney) ==
    IF RoundFinite(round)
    THEN [ postRoundState |->
               PercentagesStep(
                   InvestorsStep(
                       EsopOverwriteStep([w2 EXCEPT !.totalShares = @ + newShares], round),
                       round, newShares, sharePrice, secondary)),
           finite         |-> TRUE,
           newShares      |-> newShares,
           sharePrice     |-> sharePrice,
           preMoney       |-> preMoney,
           postMoney      |-> [preMoney EXCEPT !.w = @ + round.capitalRaised] ]
    ELSE [ postRoundState |-> NonFiniteState(w2, round, secondary),
           finite         |-> FALSE,
           newShares      |-> 0,
           sharePrice     |-> NoPrice,
           preMoney       |-> Whole(0),
           postMoney      |-> Whole(0) ]

\* processRound, step 3: newShares and the pre-money valuation from the share price.
PriceStep(round, pms, w2, secondary, sharePrice) ==
    IssueStep(round, w2, secondary, sharePrice, NewShares(round, sharePrice),
              IF round.type = "PRICED"
              THEN Whole(round.pricedTerms.preMoneyValuation)
              ELSE FracTimesInt(sharePrice, pms))

\* processRound, step 2: the secondary sale, on the state w1 of step 1 and the
\* pre-money share count pms.
SaleStep(pre, round, w1, pms) ==
    PriceStep(round, pms, SecondaryStep(w1, round),
              IF SecondaryFounder(w1, round) # {}
              THEN <<SecondaryInvestor(w1, round)>> ELSE <<>>,
              SharePrice(round, pre, pms))

\* processRound: the postRoundState and the computed facts of the round.
ProcessRound(pre, round) ==
    SaleStep(pre, round, PreMoneyEsopStep(pre, round), PreMoneyShares(pre, round))

(***************************************************************************)
(* Inputs: the scenarios the fold is explored on                           *)
(***************************************************************************)
Founder(id, initialEquity) == [id |-> id, initialEquity |-> initialEquity]

Pool(percentage) == [percentage |-> percentage]

\* founders and esopPools of a Scenario (percentages in hundredths of a percent):
\* 100; 80/20; 60/30 with a 10% pool; 50/50.04 (inside the 0.05 tolerance);
\* 60/50 (rejected).
CapTables ==
    { [founders |-> <<Founder(1, 10000)>>,                    esopPools |-> <<>>],
      [founders |-> <<Founder(1, 8000), Founder(2, 2000)>>,   esopPools |-> <<>>],
      [founders |-> <<Founder(1, 6000), Founder(2, 3000)>>,   esopPools |-> <<Pool(1000)>>],
      [founders |-> <<Founder(1, 5000), Founder(2, 5004)>>,   esopPools |-> <<>>],
      [founders |-> <<Founder(1, 6000), Founder(2, 5000)>>,   esopPools |-> <<>>] }

NoPricedTerms == [hasPreMoney |-> FALSE, preMoneyValuation |-> 0, postMoneyValuation |-> 0]

NoSafeTerms == [valuationCap |-> 0, discount |-> 0]

NoEsopAdjustment == [present |-> FALSE, newPoolPercentage |-> 0, isPreMoney |-> FALSE]

NoSecondary == [present |-> FALSE, founderId |-> 0, sharesSold |-> 0, salePrice |-> 0]

Priced(capitalRaised, preMoneyValuation) ==
    [ type |-> "PRICED", capitalRaised |-> capitalRaised,
      pricedTerms |-> [hasPreMoney |-> TRUE, preMoneyValuation |-> preMoneyValuation,
                       postMoneyValuation |-> 0],
      safeTerms |-> NoSafeTerms ]

PricedPostMoney(capitalRaised, postMoneyValuation) ==
    [ type |-> "PRICED", capitalRaised |-> capitalRaised,
      pricedTerms |-> [hasPreMoney |-> FALSE, preMoneyValuation |-> 0,
                       postMoneyValuation |-> postMoneyValuation],
      safeTerms |-> NoSafeTerms ]

Safe(capitalRaised, valuationCap, discount) ==
    [ type |-> "SAFE", capitalRaised |-> capitalRaised,
      pricedTerms |-> NoPricedTerms,
      safeTerms |-> [valuationCap |-> valuationCap, discount |-> discount] ]

EsopAdjustment(newPoolPercentage, isPreMoney) ==
    [present |-> TRUE, newPoolPercentage |-> newPoolPercentage, isPreMoney |-> isPreMoney]

Secondary(founderId, sharesSold, salePrice) ==
    [present |-> TRUE, founderId |-> founderId, sharesSold |-> sharesSold, salePrice |-> salePrice]

\* Terms of the primary raise: priced rounds on a pre-money valuation, on a
\* post-money valuation only, with capital of 0 and below 0; SAFEs with a cap, a
\* discount, both (either one the lower price), and neither.
PrimaryTerms ==
    { Priced(1000000, 4000000), Priced(3000000, 15000000),
      PricedPostMoney(1000000, 5000000),
      Priced(0, 4000000), Priced(-1000, 4000000),
      Safe(500000, 5000000, 0), Safe(300000, 6000000, 25),
      Safe(250000, 10000000, 20), Safe(250000, 0, 20),
      Safe(500000, 0, 0) }

\* The terms that are also explored with riders.
RiderTerms ==
    { Priced(1000000, 4000000), Safe(300000, 6000000, 25), Safe(500000, 0, 0) }

EsopRiders == { NoEsopAdjustment, EsopAdjustment(10, TRUE), EsopAdjustment(15, FALSE) }

\* Founder 1 sells 1,000,000 shares; founder 2 (absent from a one-founder table)
\* sells 9,000,000, more than any founder 2 holds.
SecondaryRiders == { NoSecondary, Secondary(1, 1000000, 1), Secondary(2, 9000000, 2) }

WithRiders(terms, id, esopAdjustment, founderSecondary) ==
    [ id |-> id, type |-> terms.type, capitalRaised |-> terms.capitalRaised,
      pricedTerms |-> terms.pricedTerms, safeTerms |-> terms.safeTerms,
      esopAdjustment |-> esopAdjustment, founderSecondary |-> founderSecondary ]

\* Rounds that resize the pool pre-money to a target below the pool of a table that
\* has one (5%), and to a target that makes the pool the largest holder (50%).
PoolRounds(id) ==
    { WithRiders(Safe(250000, 10000000, 0), id, EsopAdjustment(5, TRUE), NoSecondary),
      WithRiders(Priced(1000000, 4000000), id, EsopAdjustment(50, TRUE), NoSecondary) }

\* The FundingRounds a scenario may hold at position id.
Rounds(id) ==
    { WithRiders(t, id, NoEsopAdjustment, NoSecondary) : t \in PrimaryTerms }
    \cup { WithRiders(t, id, e, f) : t \in RiderTerms, e \in EsopRiders, f \in SecondaryRiders }
    \cup PoolRounds(id)

(***************************************************************************)
(* Before any call of simulateExit and validateScenario                    *)
(***************************************************************************)
NoExitSimulation ==
    [ called |-> FALSE, exitValuation |-> 0, finite |-> TRUE, founderReturns |-> <<>>,
      esopValue |-> Whole(0), investorReturns |-> <<>> ]

NotValidated == [called |-> FALSE, list |-> <<>>]

\* currentScenario = null.
NoScenario == [isNull |-> TRUE, founders |-> <<>>, esopPools |-> <<>>, rounds |-> <<>>]

\* The store as created: no scenario, no states, no exit simulation, the default
\* exit valuation; edits counts the actions taken.
InitialStore ==
    [ currentScenario |-> NoScenario, capTableStates |-> <<>>,
      exitSimulation |-> NoExitSimulation, exitValuation |-> 100000000, edits |-> 0 ]

(***************************************************************************)
(* FinancialEngine.calculateCapTable                                       *)
(***************************************************************************)
Last(s) == s[Len(s)]

\* calculateCapTable is entered with a scenario whose founders and pools are one
\* of `tables`.
Enter(tables) ==
    /\ scenario \in { [founders |-> c.founders, esopPools |-> c.esopPools, rounds |-> <<>>] :
                        c \in tables }
    /\ states = <<>>
    /\ results = <<>>
    /\ pc = "start"
    /\ exitSimulation = NoExitSimulation
    /\ errors = NotValidated
    /\ store = InitialStore

Init == Enter(CapTables)

\* createInitialState throws: calculateCapTable returns nothing.
InitialStateThrows ==
    /\ pc = "start"
    /\ InitialEquityInvalid(scenario.founders, scenario.esopPools)
    /\ pc' = "thrown"
    /\ UNCHANGED <<scenario, states, results, api, store>>

\* states.push(createInitialState(...))
InitialState ==
    /\ pc = "start"
    /\ ~InitialEquityInvalid(scenario.founders, scenario.esopPools)
    /\ states' = <<CreateInitialState(scenario.founders, scenario.esopPools)>>
    /\ pc' = "folding"
    /\ UNCHANGED <<scenario, results, api, store>>

\* The rounds of the scenario are drawn as the loop reaches them; scenario.rounds
\* holds the rounds reached so far.  The fold is explored up to the first state
\* that is not finite.
CanFold ==
    /\ pc = "folding"
    /\ Len(scenario.rounds) < MaxRounds
    /\ Last(states).finite

\* Mutant: processRound works on the caller's object, not on a copy of it.
PreRoundStateAfter_Aliased(preRoundState, round) ==
    ProcessRound(preRoundState, round).postRoundState

\* The preRoundState object after processRound(preRoundState, round): every write of
\* processRound goes to workingState, the deep copy of line 81.
PreRoundStateAfter(preRoundState, round) == preRoundState

\* Mutant: currentState stays the initial state.
CurrentState_Initial == states[1]

\* currentState: the state pushed last.
CurrentState == Last(states)

\* The body of the loop for `round`: processRound returns, its postRoundState is
\* pushed behind the state it was computed from.
PushRound(round) ==
    /\ scenario' = [scenario EXCEPT !.rounds = Append(@, round)]
    /\ LET result == ProcessRound(CurrentState, round)
       IN  /\ states' = Append([states EXCEPT ![Len(states)] = PreRoundStateAfter(@, round)],
                               result.postRoundState)
           /\ results' = Append(results, [result EXCEPT !.postRoundState = Len(states) + 1])
    /\ pc' = pc
    /\ UNCHANGED <<api, store>>

\* processRound throws on `round`: the exception leaves calculateCapTable, nothing
\* is returned.
ThrowFrom(round) ==
    /\ scenario' = [scenario EXCEPT !.rounds = Append(@, round)]
    /\ pc' = "thrown"
    /\ UNCHANGED <<states, results, api, store>>

\* One iteration of the loop.
FoldRound ==
    /\ CanFold
    /\ \E round \in Rounds(Len(scenario.rounds) + 1) :
        ~RoundThrows(round) /\ PushRound(round)

\* processRound throws (a SAFE with neither cap nor discount): the exception leaves
\* calculateCapTable, nothing is returned.
FoldRoundThrows ==
    /\ CanFold
    /\ \E round \in Rounds(Len(scenario.rounds) + 1) :
        RoundThrows(round) /\ ThrowFrom(round)

\* The loop ends: return states.
Return ==
    /\ pc = "folding"
    /\ pc' = "returned"
    /\ UNCHANGED <<scenario, states, results, api, store>>

Next ==
    \/ InitialStateThrows
    \/ InitialState
    \/ FoldRound
    \/ FoldRoundThrows
    \/ Return

Spec == Init /\ [][Next]_vars

(***************************************************************************)
(* createInitialState alone, on founders and pools around the tolerance    *)
(***************************************************************************)
\* How far from 100 the percentages of a table sum, in hundredths of a percent.
Deviations == {-6, -5, 0, 5, 6, 1000}

FounderSplits ==
    { <<Founder(1, e1)>> : e1 \in {2500, 3333, 5000, 6000} }
    \cup { <<Founder(1, e1), Founder(2, e2)>> :
             e1 \in {2500, 3333, 5000, 6000}, e2 \in {1000, 3000, 3333} }

\* One or two founders whose pool, in one allocation or two, takes what they leave
\* of 100% plus a deviation; and founders without a pool, off 100% by a deviation.
CreateCapTables ==
    { [founders |-> f,
       esopPools |-> LET rest == 10000 + d - SumSeq(Field(f, "initialEquity"))
                     IN  IF two THEN <<Pool(rest \div 2), Pool(rest - rest \div 2)>>
                                ELSE <<Pool(rest)>>] :
        f \in FounderSplits, d \in Deviations, two \in BOOLEAN }
    \cup { [founders |-> <<Founder(1, 10000 + d)>>, esopPools |-> <<>>] : d \in Deviations }
    \cup { [founders |-> <<Founder(1, 5000), Founder(2, 5000 + d)>>, esopPools |-> <<>>] :
             d \in Deviations }

InitCreate == Enter(CreateCapTables)

NextCreate ==
    \/ InitialStateThrows
    \/ InitialState

SpecCreate == InitCreate /\ [][NextCreate]_vars

(***************************************************************************)
(* FinancialEngine.simulateExit                                            *)
(***************************************************************************)
\* (percentage / 100) * exitValuation, as a mixed number.
CashReturn(percentage, exitValuation) ==
    FracTimesInt(Frac(exitValuation, 10000), percentage)

\* What a division by zero leaves: Infinity, or NaN for 0 / 0.
NotANumber == [w |-> 0, n |-> 1, d |-> 0]

\* Mutant: the multiple is the quotient whatever the investmentAmount.
Multiple_Unguarded(percentage, exitValuation, investmentAmount) ==
    IF investmentAmount = 0
    THEN NotANumber
    ELSE FracTimesInt(FracScale(Frac(exitValuation, 10000), 1, investmentAmount), percentage)

\* investor.investmentAmount ? cashReturn / investor.investmentAmount : 0
Multiple(percentage, exitValuation, investmentAmount) ==
    IF investmentAmount = 0
    THEN Whole(0)
    ELSE FracTimesInt(FracScale(Frac(exitValuation, 10000), 1, investmentAmount), percentage)

\* The ExitSimulation of simulateExit(finalState, exitValuation).  The percentages
\* of a state that is not finite are NaN, and so is every product with them.
SimulateExitOf(finalState, exitValuation) ==
    IF finalState.finite
    THEN [ called         |-> TRUE,
           exitValuation  |-> exitValuation,
           finite         |-> TRUE,
           founderReturns |-> [k \in DOMAIN finalState.founders |->
               [ founderId   |-> finalState.founders[k].id,
                 finalEquity |-> finalState.founders[k].percentage,
                 cashReturn  |-> CashReturn(finalState.founders[k].percentage, exitValuation) ]],
           esopValue      |-> CashReturn(finalState.esop.percentage, exitValuation),
           investorReturns |-> [k \in DOMAIN finalState.investors |->
               [ investorId  |-> finalState.investors[k].id,
                 finalEquity |-> finalState.investors[k].percentage,
                 cashReturn  |-> CashReturn(finalState.investors[k].percentage, exitValuation),
                 multiple    |-> Multiple(finalState.investors[k].percentage, exitValuation,
                                          finalState.investors[k].investmentAmount) ]] ]
    ELSE [ called |-> TRUE, exitValuation |-> exitValuation, finite |-> FALSE,
           founderReturns |-> <<>>, esopValue |-> Whole(0), investorReturns |-> <<>> ]

(***************************************************************************)
(* FinancialEngine.validateScenario                                        *)
(***************************************************************************)
\* The messages of one round, in the order they are pushed.  A message
\* `Round ${index + 1}: text` is <<"Round", index + 1, text>>.
RoundErrors(round, index) ==
    (IF round.capitalRaised <= 0
     THEN << <<"Round", index + 1, "Capital raised must be positive">> >> ELSE <<>>)
    \o (IF round.type = "PRICED" /\ round.pricedTerms.hasPreMoney
           /\ round.pricedTerms.preMoneyValuation # 0 /\ round.pricedTerms.preMoneyValuation <= 0
        THEN << <<"Round", index + 1, "Pre-money valuation must be positive">> >> ELSE <<>>)
    \o (IF round.type = "SAFE" /\ round.safeTerms.valuationCap = 0 /\ round.safeTerms.discount = 0
        THEN << <<"Round", index + 1, "SAFE must have either a valuation cap or a discount">> >>
        ELSE <<>>)

\* `${founder.name} cannot have negative equity`, per founder in order.
RECURSIVE FounderErrors(_)
FounderErrors(founders) ==
    IF founders = <<>> THEN <<>>
    ELSE (IF Head(founders).initialEquity < 0
          THEN << <<"Founder", Head(founders).id, "cannot have negative equity">> >> ELSE <<>>)
         \o FounderErrors(Tail(founders))

RECURSIVE AllRoundErrors(_, _)
AllRoundErrors(rounds, index) ==
    IF index >= Len(rounds) THEN <<>>
    ELSE RoundErrors(rounds[index + 1], index) \o AllRoundErrors(rounds, index + 1)

ValidateScenarioOf(s) ==
    (IF Len(s.founders) = 0 THEN << <<"At least one founder is required">> >> ELSE <<>>)
    \o (IF Len(s.founders) > 6 THEN << <<"Maximum 6 founders allowed">> >> ELSE <<>>)
    \o (IF Abs(TotalEquityPercent(s.founders, s.esopPools) - 10000) > 5
        THEN << <<"Total equity must sum to 100%">> >> ELSE <<>>)
    \o FounderErrors(s.founders)
    \o AllRoundErrors(s.rounds, 0)

(***************************************************************************)
(* The three entry points of FinancialEngine together, on a small family   *)
(* of scenarios                                                            *)
(***************************************************************************)
\* 100; 60/30 with a 10% pool; 60/50 (rejected); 110/-10; no founder at all;
\* seven founders.
EngineCapTables ==
    { [founders |-> <<Founder(1, 10000)>>,                    esopPools |-> <<>>],
      [founders |-> <<Founder(1, 6000), Founder(2, 3000)>>,   esopPools |-> <<Pool(1000)>>],
      [founders |-> <<Founder(1, 6000), Founder(2, 5000)>>,   esopPools |-> <<>>],
      [founders |-> <<Founder(1, 11000), Founder(2, -1000)>>, esopPools |-> <<>>],
      [founders |-> <<>>,                                     esopPools |-> <<>>],
      [founders |-> [k \in 1..7 |-> Founder(k, IF k = 1 THEN 1426 ELSE 1429)],
       esopPools |-> <<>>] }

\* A priced round; a SAFE with a post-money pool; a priced round whose secondary
\* sale is at price 0 (an investor with investmentAmount 0); a round raising
\* nothing; a priced round on a post-money valuation only (NaN); a SAFE with
\* neither cap nor discount (throws).
EngineRounds(id) ==
    { WithRiders(Priced(1000000, 4000000), id, NoEsopAdjustment, NoSecondary),
      WithRiders(Safe(500000, 5000000, 0), id, EsopAdjustment(15, FALSE), NoSecondary),
      WithRiders(Priced(1000000, 4000000), id, NoEsopAdjustment, Secondary(1, 1000000, 0)),
      WithRiders(Priced(0, 4000000), id, NoEsopAdjustment, NoSecondary),
      WithRiders(PricedPostMoney(1000000, 5000000), id, NoEsopAdjustment, NoSecondary),
      WithRiders(Safe(500000, 0, 0), id, NoEsopAdjustment, NoSecondary) }

\* 0, a valuation below the capital raised (whose hundredths of a percent are not
\* whole amounts), and the store's default.
ExitValuations == {0, 12500, 100000000}

InitEngine == Enter(EngineCapTables)

EngineFoldRound ==
    /\ CanFold
    /\ \E round \in EngineRounds(Len(scenario.rounds) + 1) :
        ~RoundThrows(round) /\ PushRound(round)

EngineFoldRoundThrows ==
    /\ CanFold
    /\ \E round \in EngineRounds(Len(scenario.rounds) + 1) :
        RoundThrows(round) /\ ThrowFrom(round)

\* simulateExit(finalState, exitValuation) on the last state calculateCapTable
\* returned; it reads finalState and writes nothing but its result.
SimulateExit ==
    /\ pc = "returned"
    /\ \E exitValuation \in ExitValuations :
        exitSimulation' = SimulateExitOf(Last(states), exitValuation)
    /\ UNCHANGED <<scenario, states, results, pc, errors, store>>

\* validateScenario(scenario), on the scenario calculateCapTable was given.
ValidateScenario ==
    /\ pc \in {"returned", "thrown"}
    /\ ~errors.called
    /\ errors' = [called |-> TRUE, list |-> ValidateScenarioOf(scenario)]
    /\ UNCHANGED <<scenario, states, results, pc, exitSimulation, store>>

NextEngine ==
    \/ InitialStateThrows
    \/ InitialState
    \/ EngineFoldRound
    \/ EngineFoldRoundThrows
    \/ Return
    \/ SimulateExit
    \/ ValidateScenario

SpecEngine == InitEngine /\ [][NextEngine]_vars

(***************************************************************************)
(* The store of scenario-store.ts.  Every action that edits the scenario   *)
(* ends with recalculate().                                                *)
(***************************************************************************)
\* FinancialEngine.calculateCapTable(s) as one call: the states it returns, or
\* that it throws.
RECURSIVE FoldRounds(_, _)
FoldRounds(sts, rounds) ==
    IF rounds = <<>> THEN [throws |-> FALSE, states |-> sts]
    ELSE IF RoundThrows(Head(rounds)) THEN [throws |-> TRUE, states |-> <<>>]
    ELSE FoldRounds(Append(sts, ProcessRound(Last(sts), Head(rounds)).postRoundState),
                    Tail(rounds))

CalculateCapTable(s) ==
    IF InitialEquityInvalid(s.founders, s.esopPools)
    THEN [throws |-> TRUE, states |-> <<>>]
    ELSE FoldRounds(<<CreateInitialState(s.founders, s.esopPools)>>, s.rounds)

\* recalculate(): nothing without a scenario; the catch block only logs, so a
\* throwing fold leaves capTableStates and exitSimulation as they are; exitVal = 0
\* is falsy and skips the exit simulation.
Caught(st, r) ==
    IF r.throws THEN st
    ELSE [st EXCEPT !.capTableStates = r.states,
                    !.exitSimulation =
                        IF st.exitValuation # 0 /\ r.states # <<>>
                        THEN SimulateExitOf(Last(r.states), st.exitValuation)
                        ELSE @]

Recalculated(st) ==
    IF st.currentScenario.isNull THEN st
    ELSE Caught(st, CalculateCapTable(st.currentScenario))

\* [...rounds].sort((a, b) => a.timestamp - b.timestamp): a stable sort.
RECURSIVE InsertByTimestamp(_, _)
InsertByTimestamp(s, r) ==
    IF s = <<>> THEN <<r>>
    ELSE IF r.timestamp < Head(s).timestamp THEN <<r>> \o s
    ELSE <<Head(s)>> \o InsertByTimestamp(Tail(s), r)

RECURSIVE SortByTimestamp(_)
SortByTimestamp(s) ==
    IF s = <<>> THEN <<>>
    ELSE InsertByTimestamp(SortByTimestamp(SubSeq(s, 1, Len(s) - 1)), s[Len(s)])

\* { ...r, ...updates }
Merge(r, updates) ==
    [f \in DOMAIN r |-> IF f \in DOMAIN updates THEN updates[f] ELSE r[f]]

RECURSIVE Without(_, _)
Without(s, id) ==
    IF s = <<>> THEN <<>>
    ELSE (IF Head(s).id = id THEN <<>> ELSE <<Head(s)>>) \o Without(Tail(s), id)

Ids(s) == { s[k].id : k \in DOMAIN s }

\* The scenario after an edit, then recalculate(); the action is counted.
Edited(scenario2) ==
    store' = [Recalculated([store EXCEPT !.currentScenario = scenario2])
                 EXCEPT !.edits = store.edits + 1]

\* Every action of the store: the engine's own variables are not involved.
StoreAction ==
    /\ store.edits < MaxEdits
    /\ UNCHANGED <<scenario, states, results, pc, api>>

\* `if (!current) return`
HasScenario == ~store.currentScenario.isNull

(* Inputs of the store actions *)
\* 100; 60/40; 60/30 with a 10% pool; 60/50 (rejected by createInitialState).
StoreCapTables ==
    { [founders |-> <<Founder(1, 10000)>>,                  esopPools |-> <<>>],
      [founders |-> <<Founder(1, 6000), Founder(2, 4000)>>, esopPools |-> <<>>],
      [founders |-> <<Founder(1, 6000), Founder(2, 3000)>>, esopPools |-> <<Pool(1000)>>],
      [founders |-> <<Founder(1, 6000), Founder(2, 5000)>>, esopPools |-> <<>>] }

Timestamps == {1, 2, 3}

StoreRound(terms, id, timestamp) ==
    [ id |-> id, type |-> terms.type, capitalRaised |-> terms.capitalRaised,
      pricedTerms |-> terms.pricedTerms, safeTerms |-> terms.safeTerms,
      esopAdjustment |-> NoEsopAdjustment, founderSecondary |-> NoSecondary,
      timestamp |-> timestamp ]

\* A priced round, and a SAFE with neither cap nor discount (the fold throws).
StoreTerms == { Priced(1000000, 4000000), Safe(500000, 0, 0) }

\* generateId(): an id no round of the scenario has.
FreshId(rounds) == IF rounds = <<>> THEN 1 ELSE 1 + SumSeq(Field(rounds, "id"))

RoundUpdates ==
    { [timestamp |-> t] : t \in Timestamps }
    \cup { [type |-> t.type, capitalRaised |-> t.capitalRaised, pricedTerms |-> t.pricedTerms,
            safeTerms |-> t.safeTerms] : t \in StoreTerms }

(* Actions *)
CreateScenario ==
    /\ StoreAction
    /\ \E c \in StoreCapTables :
        Edited([isNull |-> FALSE, founders |-> c.founders, esopPools |-> c.esopPools,
                rounds |-> <<>>])

\* A saved scenario, with one round.
LoadScenario ==
    /\ StoreAction
    /\ \E c \in StoreCapTables, t \in StoreTerms :
        Edited([isNull |-> FALSE, founders |-> c.founders, esopPools |-> c.esopPools,
                rounds |-> <<StoreRound(t, 1, 2)>>])

UpdateScenario ==
    /\ StoreAction
    /\ HasScenario
    /\ \E c \in StoreCapTables :
        Edited(Merge(store.currentScenario, [founders |-> c.founders, esopPools |-> c.esopPools]))

AddFounder ==
    /\ StoreAction
    /\ HasScenario
    /\ Edited([store.currentScenario EXCEPT !.founders = Append(@, Founder(Len(@) + 1, 4000))])

UpdateFounder ==
    /\ StoreAction
    /\ HasScenario
    /\ \E founderId \in Ids(store.currentScenario.founders), e \in {6000, 10000} :
        Edited([store.currentScenario EXCEPT !.founders =
                   [k \in DOMAIN @ |-> IF @[k].id = founderId
                                       THEN Merge(@[k], [initialEquity |-> e]) ELSE @[k]]])

RemoveFounder ==
    /\ StoreAction
    /\ HasScenario
    /\ \E founderId \in Ids(store.currentScenario.founders) :
        Edited([store.currentScenario EXCEPT !.founders = Without(@, founderId)])

AddRound ==
    /\ StoreAction
    /\ HasScenario
    /\ \E t \in StoreTerms, timestamp \in Timestamps :
        Edited([store.currentScenario EXCEPT !.rounds =
                   SortByTimestamp(Append(@, StoreRound(t, FreshId(@), timestamp)))])

UpdateRound ==
    /\ StoreAction
    /\ HasScenario
    /\ \E roundId \in Ids(store.currentScenario.rounds), updates \in RoundUpdates :
        Edited([store.currentScenario EXCEPT !.rounds =
                   [k \in DOMAIN @ |-> IF @[k].id = roundId THEN Merge(@[k], updates) ELSE @[k]]])

RemoveRound ==
    /\ StoreAction
    /\ HasScenario
    /\ \E roundId \in Ids(store.currentScenario.rounds) :
        Edited([store.currentScenario EXCEPT !.rounds = Without(@, roundId)])

UpdateESOPPool ==
    /\ StoreAction
    /\ HasScenario
    /\ \E p \in {1000, 2000} :
        Edited([store.currentScenario EXCEPT !.esopPools =
                   [k \in DOMAIN @ |-> Merge(@[k], [percentage |-> p])]])

Recalculate ==
    /\ StoreAction
    /\ HasScenario
    /\ Edited(store.currentScenario)

\* simulateExit(exitValuation): the valuation is stored first; without states
\* nothing else happens.
StoreSimulateExit ==
    /\ StoreAction
    /\ \E exitValuation \in ExitValuations :
        store' = [store EXCEPT
                     !.exitValuation  = exitValuation,
                     !.exitSimulation =
                         IF store.capTableStates = <<>> THEN @
                         ELSE SimulateExitOf(Last(store.capTableStates), exitValuation),
                     !.edits = @ + 1]

ClearScenario ==
    /\ StoreAction
    /\ store' = [store EXCEPT !.currentScenario = NoScenario, !.capTableStates = <<>>,
                              !.exitSimulation = NoExitSimulation, !.edits = @ + 1]

\* The engine's variables hold no call.
InitStore ==
    /\ scenario = [founders |-> <<>>, esopPools |-> <<>>, rounds |-> <<>>]
    /\ states = <<>>
    /\ results = <<>>
    /\ pc = "start"
    /\ exitSimulation = NoExitSimulation
    /\ errors = NotValidated
    /\ store = InitialStore

NextStore ==
    \/ CreateScenario
    \/ LoadScenario
    \/ UpdateScenario
    \/ AddFounder
    \/ UpdateFounder
    \/ RemoveFounder
    \/ AddRound
    \/ UpdateRound
    \/ RemoveRound
    \/ UpdateESOPPool
    \/ Recalculate
    \/ StoreSimulateExit
    \/ ClearScenario

SpecStore == InitStore /\ [][NextStore]_vars

(***************************************************************************)
(* Vocabulary of the properties                                            *)
(***************************************************************************)
\* Round i of the fold took states[i] to states[i + 1] with results[i].
\* results[i] and its two states never change once pushed, so each round is examined
\* in the state that pushes its result.
Folded == IF pc = "folding" /\ results # <<>> THEN {Len(results)} ELSE {}

RoundOf(i) == scenario.rounds[i]

PreState(i) == states[i]

PostState(i) == states[i + 1]

AllShares(s) ==
    SumSeq(Field(s.founders, "shares")) + s.esop.shares + SumSeq(Field(s.investors, "shares"))

AllPercent(s) ==
    SumSeq(Field(s.founders, "percentage")) + s.esop.percentage
        + SumSeq(Field(s.investors, "percentage"))

SafeWithBoth(round) ==
    round.type = "SAFE" /\ round.safeTerms.valuationCap # 0 /\ round.safeTerms.discount # 0

(***************************************************************************)
(* C1  Share conservation: in every state of the fold, totalShares is a    *)
(* number equal to the founders' shares plus the pool's shares plus the    *)
(* investors' shares.                                                      *)
(* Fails: step 5 overwrites esop.shares without touching totalShares, and  *)
(* createInitialState rounds each holder inside the 0.05 tolerance.        *)
(***************************************************************************)
C1_ShareConservation ==
    \A i \in DOMAIN states : states[i].finite /\ states[i].totalShares = AllShares(states[i])

(***************************************************************************)
(* C2  Percent conservation: in every state the percentage fields sum to   *)
(* 100.00 within 0.01, and after a round they sum to exactly 100.00.       *)
(***************************************************************************)
C2_PercentConservation ==
    \A i \in DOMAIN states :
        /\ states[i].finite
        /\ Abs(AllPercent(states[i]) - 10000) <= 1
        /\ i > 1 => AllPercent(states[i]) = 10000

(***************************************************************************)
(* C3  SAFE best-price law: a SAFE with both a valuation cap and a         *)
(* discount converts at the lower of capPrice = cap / preMoneyShares and   *)
(* discountPrice = assumed price x (1 - discount / 100); that price issues *)
(* the shares and is recorded on the investor.                             *)
(***************************************************************************)
ExpectedPreMoneyShares(i) ==
    IF RoundOf(i).esopAdjustment.present /\ RoundOf(i).esopAdjustment.isPreMoney
    THEN MathRound(PreState(i).totalShares - PreState(i).esop.shares, 100,
                   100 - RoundOf(i).esopAdjustment.newPoolPercentage)
    ELSE PreState(i).totalShares

C3_CapPrice(i) == Frac(RoundOf(i).safeTerms.valuationCap, ExpectedPreMoneyShares(i))

C3_DiscountPrice(i) ==
    FracScale(AssumedPricedRoundPrice(PreState(i)), 100 - RoundOf(i).safeTerms.discount, 100)

NoEarlierPricedRound(i) == \A j \in 1..(i - 1) : RoundOf(j).type # "PRICED"

C4_Example(i) ==
    /\ i = 1
    /\ scenario.founders = <<Founder(1, 10000)>>
    /\ scenario.esopPools = <<>>
    /\ RoundOf(i) = WithRiders(Safe(300000, 6000000, 25), 1, NoEsopAdjustment, NoSecondary)

C4_DiscountOnCapPrice ==
    \A i \in Folded :
        /\ (SafeWithBoth(RoundOf(i)) /\ NoEarlierPricedRound(i)) =>
               results[i].sharePrice =
                   FracScale(C3_CapPrice(i), 100 - RoundOf(i).safeTerms.discount, 100)
        /\ C4_Example(i) =>
               /\ results[i].sharePrice = [n |-> 9, d |-> 20]
               /\ results[i].newShares = 666667
               /\ PostState(i).totalShares = 10666667

(***************************************************************************)
(* C5  A priced round on a pre-money valuation: sharePrice = preMoney /    *)
(* (total shares after the pre-money pool resize), newShares =             *)
(* round(capitalRaised / sharePrice), totalShares grows by newShares,      *)
(* postMoney = preMoney + capitalRaised; 1,000,000 at 4,000,000 pre-money  *)
(* on one founder's 10,000,000 shares gives 0.40, 2,500,000 new shares,    *)
(* 12,500,000 in total, founder 80% and investor 20%.                      *)
(***************************************************************************)
PricedOnPreMoney(round) == round.type = "PRICED" /\ round.pricedTerms.hasPreMoney

C5_Example(i) ==
    /\ i = 1
    /\ scenario.founders = <<Founder(1, 10000)>>
    /\ scenario.esopPools = <<>>
    /\ RoundOf(i) = WithRiders(Priced(1000000, 4000000), 1, NoEsopAdjustment, NoSecondary)

C5_PricedRound ==
    \A i \in Folded :
        /\ PricedOnPreMoney(RoundOf(i)) =>
            LET preMoney == RoundOf(i).pricedTerms.preMoneyValuation
                shares   == ExpectedPreMoneyShares(i)
                p        == results[i].sharePrice
                q        == FloorQR(RoundOf(i).capitalRaised, shares, preMoney)
            IN  /\ results[i].finite
                /\ MulDivQR(p.n, shares, p.d) = <<preMoney, 0>>
                /\ results[i].newShares = q[1] + (IF 2 * q[2] >= preMoney THEN 1 ELSE 0)
                /\ PostState(i).totalShares = shares + results[i].newShares
                /\ results[i].preMoney = Whole(preMoney)
                /\ results[i].postMoney = Whole(preMoney + RoundOf(i).capitalRaised)
        /\ C5_Example(i) =>
            /\ results[i].sharePrice = [n |-> 2, d |-> 5]
            /\ results[i].newShares = 2500000
            /\ PostState(i).totalShares = 12500000
            /\ PostState(i).founders[1].percentage = 8000
            /\ PostState(i).investors[1].percentage = 2000

\* A priced round has been priced on a total that its pre-money resize raised.
C5_Witness ==
    \E i \in Folded :
        /\ PricedOnPreMoney(RoundOf(i))
        /\ RoundOf(i).esopAdjustment.present /\ RoundOf(i).esopAdjustment.isPreMoney
        /\ ExpectedPreMoneyShares(i) > PreState(i).totalShares
        /\ results[i].newShares > 0

(***************************************************************************)
(* C6  A priced round that gives a post-money valuation instead of a       *)
(* pre-money valuation is priced on preMoney = postMoney - capitalRaised:  *)
(* a finite positive share price and an integer newShares.                 *)
(* Fails: only preMoneyValuation is read; the price is NaN.                *)
(***************************************************************************)
PricedOnPostMoney(round) ==
    /\ round.type = "PRICED"
    /\ ~round.pricedTerms.hasPreMoney
    /\ round.pricedTerms.postMoneyValuation > 0

C6_PostMoneyPriced ==
    \A i \in Folded : PricedOnPostMoney(RoundOf(i)) =>
        LET preMoney == RoundOf(i).pricedTerms.postMoneyValuation - RoundOf(i).capitalRaised
        IN  /\ results[i].finite
            /\ PostState(i).finite
            /\ results[i].sharePrice = Frac(preMoney, ExpectedPreMoneyShares(i))
            /\ results[i].sharePrice.n > 0

(***************************************************************************)
(* C7  A round with capitalRaised <= 0 fails before any state change: the  *)
(* fold holds no state for it.                                             *)
(* Fails: processRound never checks capitalRaised.                         *)
(***************************************************************************)
C7_NonPositiveCapitalRejected ==
    \A i \in DOMAIN scenario.rounds :
        scenario.rounds[i].capitalRaised <= 0 => (pc = "thrown" /\ Len(states) <= i)

(***************************************************************************)
(* C8  A SAFE with neither cap nor discount fails: no next state is        *)
(* produced and the states before it stay as they were, also when the      *)
(* round carries a pre-money pool resize or a founder secondary sale.      *)
(***************************************************************************)
SafeWithNeither(round) ==
    round.type = "SAFE" /\ round.safeTerms.valuationCap = 0 /\ round.safeTerms.discount = 0

ReachesRound ==
    /\ Len(scenario'.rounds) = Len(scenario.rounds) + 1
    /\ SafeWithNeither(Last(scenario'.rounds))

C8_SafeWithoutTermsFails ==
    [][ReachesRound => (pc' = "thrown" /\ states' = states /\ results' = results)]_vars

C8_Witness ==
    /\ pc = "thrown"
    /\ Len(states) = 2
    /\ Len(scenario.rounds) = 2
    /\ SafeWithNeither(Last(scenario.rounds))
    /\ Last(scenario.rounds).esopAdjustment.present
    /\ Last(scenario.rounds).esopAdjustment.isPreMoney
    /\ Last(scenario.rounds).founderSecondary.present
    /\ Last(scenario.rounds).founderSecondary.founderId = 1

(***************************************************************************)
(* C9  No founder's share count is negative in any state: a secondary sale *)
(* of more than the founder holds leaves the founder at zero.              *)
(* Fails: sharesSold is subtracted without a clamp.                        *)
(***************************************************************************)
C9_FounderSharesNonNegative ==
    \A i \in DOMAIN states : \A k \in DOMAIN states[i].founders :
        states[i].founders[k].shares >= 0

(***************************************************************************)
(* C10 A founder secondary sale creates no shares: totalShares is what the *)
(* round gives without the sale, the named founder holds sharesSold fewer  *)
(* shares, a new investor entry holds sharesSold shares with               *)
(* investmentAmount = sharesSold x salePrice, and every other founder's    *)
(* and investor's share count is what it is without the sale.              *)
(***************************************************************************)
HasSale(i) ==
    /\ RoundOf(i).founderSecondary.present
    /\ \E k \in DOMAIN PreState(i).founders :
           PreState(i).founders[k].id = RoundOf(i).founderSecondary.founderId

WithoutSale(i) ==
    ProcessRound(PreState(i), [RoundOf(i) EXCEPT !.founderSecondary = NoSecondary]).postRoundState

NoSaleUpTo(i) == \A j \in 1..i : ~RoundOf(j).founderSecondary.present

C11_FounderSharesMonotonic ==
    \A i \in Folded : NoSaleUpTo(i) =>
        \A k \in DOMAIN PostState(i).founders :
            PostState(i).founders[k].shares <= PreState(i).founders[k].shares

\* A second round without any sale that resizes the pool pre-money, after a round
\* that issued shares or resized the pool post-money, on a table of two founders.
C11_Witness ==
    \E i \in Folded :
        /\ i = 2
        /\ NoSaleUpTo(i)
        /\ Len(PostState(i).founders) = 2
        /\ RoundOf(i).esopAdjustment.present /\ RoundOf(i).esopAdjustment.isPreMoney
        /\ RoundOf(1).esopAdjustment.present /\ ~RoundOf(1).esopAdjustment.isPreMoney
        /\ results[1].newShares > 0
        /\ results[2].newShares > 0

(***************************************************************************)
(* C12 In a fold with no secondary sale, once a round has issued new       *)
(* shares, no later round raises a founder's percentage: each founder's    *)
(* percentage after the round is at most the percentage before it.         *)
(***************************************************************************)
IssuedBefore(i) == \E j \in 1..(i - 1) : results[j].newShares > 0

C12_FounderPercentageMonotonic ==
    \A i \in Folded : (NoSaleUpTo(i) /\ IssuedBefore(i) /\ PostState(i).finite) =>
        \A k \in DOMAIN PostState(i).founders :
            PostState(i).founders[k].percentage <= PreState(i).founders[k].percentage

(***************************************************************************)
(* C13 After a round that carries a pool adjustment, pre-money or          *)
(* post-money, the pool's percentage is the round's newPoolPercentage      *)
(* within 0.1, whatever the target and the state before the round.         *)
(***************************************************************************)
C13_PoolAtTarget ==
    \A i \in Folded : (RoundOf(i).esopAdjustment.present /\ PostState(i).finite) =>
        Abs(PostState(i).esop.percentage - 100 * RoundOf(i).esopAdjustment.newPoolPercentage) <= 10

(***************************************************************************)
(* C14 Initialisation fails, and the fold returns no states at all,        *)
(* exactly when the founders' initialEquity values plus the pool           *)
(* allocations' percentages sum to something further than 0.05 from 100;   *)
(* otherwise it yields the initial state.                                  *)
(***************************************************************************)
EquitySum ==
    SumSeq([k \in DOMAIN scenario.founders |-> scenario.founders[k].initialEquity])
        + SumSeq([k \in DOMAIN scenario.esopPools |-> scenario.esopPools[k].percentage])

TenMillionths(p) == p * 1000

C15_InitialState ==
    (pc = "folding" /\ Len(states) = 1) =>
        LET s == states[1]
        IN  /\ s.totalShares = 10000000
            /\ s.investors = <<>>
            /\ Len(s.founders) = Len(scenario.founders)
            /\ \A k \in DOMAIN scenario.founders :
                   /\ s.founders[k].shares = TenMillionths(scenario.founders[k].initialEquity)
                   /\ s.founders[k].percentage = scenario.founders[k].initialEquity
            /\ s.esop.shares =
                   SumSeq([k \in DOMAIN scenario.esopPools |->
                              TenMillionths(scenario.esopPools[k].percentage)])
            /\ s.esop.percentage =
                   SumSeq([k \in DOMAIN scenario.esopPools |-> scenario.esopPools[k].percentage])

\* Two founders at 33.33% and allocations of 16.69% and 16.70%, 100.05% in all.
C15_Witness ==
    /\ pc = "folding"
    /\ Len(states) = 1
    /\ Len(scenario.esopPools) = 2
    /\ Len(scenario.founders) = 2
    /\ scenario.founders[1].initialEquity = 3333
    /\ scenario.founders[2].initialEquity = 3333
    /\ states[1].esop.shares = 3339000

(***************************************************************************)
(* C16 simulateExit gives each founder and each investor the cashReturn    *)
(* percentage / 100 x exitValuation, values the pool at its percentage     *)
(* / 100 x exitValuation, and gives each investor the multiple cashReturn  *)
(* / investmentAmount, which is 0 when investmentAmount is 0.              *)
(***************************************************************************)
\* percentage / 100 x valuation for a percentage in hundredths, as w + n/d.
PercentOfValuation(percentage, valuation) ==
    IF valuation % 10000 = 0
    THEN [w |-> percentage * (valuation \div 10000), n |-> 0, d |-> 1]
    ELSE LET p == percentage * valuation
             g == GCD(p % 10000, 10000)
         IN  [w |-> p \div 10000, n |-> (p % 10000) \div g, d |-> 10000 \div g]

\* m x amount = cash, for mixed numbers m and cash and an amount > 0.
IsQuotient(m, cash, amount) ==
    LET p == MulDivQR(m.n, amount, m.d)
    IN  /\ m.w * amount + p[1] = cash.w
        /\ p[2] * cash.d = cash.n * m.d

C16_ExitReturns ==
    (exitSimulation.called /\ exitSimulation.finite) =>
        LET s == states[Len(states)]
            e == exitSimulation
        IN  /\ Len(e.founderReturns) = Len(s.founders)
            /\ Len(e.investorReturns) = Len(s.investors)
            /\ \A k \in DOMAIN s.founders :
                   e.founderReturns[k].cashReturn =
                       PercentOfValuation(s.founders[k].percentage, e.exitValuation)
            /\ e.esopValue = PercentOfValuation(s.esop.percentage, e.exitValuation)
            /\ \A k \in DOMAIN s.investors :
                   /\ e.investorReturns[k].cashReturn =
                          PercentOfValuation(s.investors[k].percentage, e.exitValuation)
                   /\ IF s.investors[k].investmentAmount = 0
                      THEN e.investorReturns[k].multiple = [w |-> 0, n |-> 0, d |-> 1]
                      ELSE /\ e.investorReturns[k].multiple.d > 0
                           /\ IsQuotient(e.investorReturns[k].multiple,
                                         e.investorReturns[k].cashReturn,
                                         s.investors[k].investmentAmount)

\* An exit at a valuation that leaves fractions, of a table with a pool, an
\* investor who paid and an investor whose investmentAmount is 0.
C16_Witness ==
    /\ exitSimulation.called
    /\ exitSimulation.finite
    /\ exitSimulation.exitValuation = 12500
    /\ states[Len(states)].esop.percentage > 0
    /\ \E k \in DOMAIN states[Len(states)].investors :
           /\ states[Len(states)].investors[k].investmentAmount = 0
           /\ states[Len(states)].investors[k].percentage > 0
    /\ \E k \in DOMAIN states[Len(states)].investors :
           /\ states[Len(states)].investors[k].investmentAmount > 0
           /\ exitSimulation.investorReturns[k].multiple.n > 0

(***************************************************************************)
(* C17 No operation of the engine writes to its input: a round leaves the  *)
(* state it was applied to as it was, so no state already in the sequence  *)
(* is altered by a later round; simulateExit leaves the state as it was,   *)
(* and its output is determined by its two arguments, the same on every    *)
(* call with them.                                                         *)
(***************************************************************************)
StatesKept ==
    \A i \in DOMAIN states : i \in DOMAIN states' /\ states'[i] = states[i]

ExitDetermined ==
    exitSimulation' # exitSimulation =>
        /\ states' = states
        /\ exitSimulation' =
               SimulateExitOf(states[Len(states)], exitSimulation'.exitValuation)

C18_FoldStates ==
    pc = "returned" =>
        /\ Len(states) = Len(scenario.rounds) + 1
        /\ states[1] = CreateInitialState(scenario.founders, scenario.esopPools)
        /\ \A i \in DOMAIN scenario.rounds :
               states[i + 1] = ProcessRound(states[i], scenario.rounds[i]).postRoundState

\* A fold over two rounds returned three different states.
C18_Witness ==
    /\ pc = "returned"
    /\ Len(scenario.rounds) = 2
    /\ states[1] # states[2]
    /\ states[2] # states[3]
    /\ states[1] # states[3]

(***************************************************************************)
(* C19 After N rounds that each raise positive capital the state holds     *)
(* exactly N investors, also when a round carries a secondary sale.        *)
(***************************************************************************)
C19_OneInvestorPerRound ==
    \A i \in Folded :
        (PostState(i).finite /\ \A j \in 1..i : RoundOf(j).capitalRaised > 0) =>
            Len(PostState(i).investors) = i

(***************************************************************************)
(* C20 For a SAFE at position i (counted from 1) with neither a valuation  *)
(* cap nor a discount, the list validateScenario returns contains the      *)
(* message 'Round i: SAFE must have either valuation cap or discount'.     *)
(***************************************************************************)
C20_SafeMessage ==
    errors.called =>
        \A i \in DOMAIN scenario.rounds :
            SafeWithNeither(scenario.rounds[i]) =>
                \E k \in DOMAIN errors.list :
                    errors.list[k] = <<"Round", i, "SAFE must have either valuation cap or discount">>

(***************************************************************************)
(* C21 For a scenario on which validateScenario reports nothing,           *)
(* totalShares and every holder's share count are finite integers in every *)
(* state of the fold.  (Share counts of the model are integers wherever    *)
(* they are finite; a state that is not finite holds NaN for them.)        *)
(***************************************************************************)
C21_IntegerShares ==
    ValidateScenarioOf(scenario) = <<>> =>
        \A i \in DOMAIN states : states[i].finite

(***************************************************************************)
(* C22 The price a SAFE's discount is applied to is the share price of the *)
(* most recent priced round among the rounds already folded, and 1.00 when *)
(* no priced round precedes the SAFE: an earlier SAFE's conversion price   *)
(* is not the reference, and a priced round that carried a secondary sale  *)
(* still supplies its price.                                               *)
(***************************************************************************)
PricedBefore(i) == { j \in 1..(i - 1) : RoundOf(j).type = "PRICED" }

ReferencePrice(i) ==
    IF PricedBefore(i) = {}
    THEN [n |-> 1, d |-> 1]
    ELSE results[CHOOSE j \in PricedBefore(i) : \A k \in PricedBefore(i) : k <= j].sharePrice

C22_DiscountPrice(i) ==
    FracScale(ReferencePrice(i), 100 - RoundOf(i).safeTerms.discount, 100)

C22_DiscountReference ==
    \A i \in Folded :
        (RoundOf(i).type = "SAFE" /\ RoundOf(i).safeTerms.discount # 0) =>
            results[i].sharePrice =
                IF RoundOf(i).safeTerms.valuationCap # 0
                THEN FracMin(C3_CapPrice(i), C22_DiscountPrice(i))
                ELSE C22_DiscountPrice(i)

(***************************************************************************)
(* C23 The assignment pool shares := round(target / 100 x final            *)
(* totalShares) is made for pool resizes flagged post-money only.  After a *)
(* round whose resize is flagged pre-money the pool holds its previous     *)
(* count plus newTotal - totalShares, with newTotal = (totalShares - pool  *)
(* shares) / (1 - target / 100): it is not overwritten after the raise.    *)
(***************************************************************************)
\* round(newTotal - totalShares) for the state s and the target percent.
PreMoneyPoolGain(s, target) ==
    LET c == 100 - target
        p == FloorQR(s.totalShares - s.esop.shares, 100, c)
    IN  (p[1] - s.totalShares) + (IF 2 * p[2] >= c THEN 1 ELSE 0)

C23_PoolAssignment ==
    \A i \in Folded : (RoundOf(i).esopAdjustment.present /\ PostState(i).finite) =>
        LET adj == RoundOf(i).esopAdjustment
        IN  IF adj.isPreMoney
            THEN PostState(i).esop.shares =
                     PreState(i).esop.shares + PreMoneyPoolGain(PreState(i), adj.newPoolPercentage)
            ELSE PostState(i).esop.shares =
                     MathRound(adj.newPoolPercentage, PostState(i).totalShares, 100)

(***************************************************************************)
(* C24 A pre-money pool resize whose target percent does not exceed the    *)
(* pool's current percent of the total has no effect: the round's total is *)
(* the previous total plus the shares of the primary raise, the pool keeps *)
(* its shares, and every founder who sells nothing keeps their shares.     *)
(***************************************************************************)
TargetNotAbovePool(i) ==
    /\ RoundOf(i).esopAdjustment.present
    /\ RoundOf(i).esopAdjustment.isPreMoney
    /\ RoundOf(i).esopAdjustment.newPoolPercentage * PreState(i).totalShares
           <= 100 * PreState(i).esop.shares

C24_NoShrinkingResize ==
    \A i \in Folded : (TargetNotAbovePool(i) /\ PostState(i).finite) =>
        /\ PostState(i).totalShares = PreState(i).totalShares + results[i].newShares
        /\ PostState(i).esop.shares = PreState(i).esop.shares
        /\ ~RoundOf(i).founderSecondary.present =>
               \A k \in DOMAIN PreState(i).founders :
                   PostState(i).founders[k].shares = PreState(i).founders[k].shares

(***************************************************************************)
(* C25 In a pre-money pool resize that raises the total from totalShares   *)
(* to newTotal every founder's share count becomes round(shares x          *)
(* totalShares / newTotal), so it strictly decreases when the pool grows;  *)
(* a post-money resize leaves every founder's and investor's share count   *)
(* unchanged.                                                              *)
(* Fails: the pre-money resize leaves the founders' share counts as they   *)
(* are.                                                                    *)
(***************************************************************************)
PoolGrowsPreMoney(i) ==
    /\ RoundOf(i).esopAdjustment.present
    /\ RoundOf(i).esopAdjustment.isPreMoney
    /\ ExpectedPreMoneyShares(i) > PreState(i).totalShares

SharesSoldBy(i, id) ==
    IF RoundOf(i).founderSecondary.present /\ RoundOf(i).founderSecondary.founderId = id
    THEN RoundOf(i).founderSecondary.sharesSold
    ELSE 0

Agrees(percentage, shares, totalShares) ==
    LET p == FloorQR(shares, 10000, totalShares)
    IN  /\ percentage <= p[1] + 1
        /\ percentage >= (IF p[2] = 0 THEN p[1] - 1 ELSE p[1])

C26_PercentageMatchesShares ==
    \A i \in Folded : PostState(i).finite =>
        LET s == PostState(i)
        IN  /\ \A k \in DOMAIN s.founders :
                   Agrees(s.founders[k].percentage, s.founders[k].shares, s.totalShares)
            /\ \A k \in DOMAIN s.investors :
                   Agrees(s.investors[k].percentage, s.investors[k].shares, s.totalShares)
            /\ Agrees(s.esop.percentage, s.esop.shares, s.totalShares)

(***************************************************************************)
(* C27 When validateScenario reports nothing for a scenario,               *)
(* calculateCapTable does not throw on it, every share price is finite and *)
(* positive, and every share count of every state is finite and not        *)
(* negative.                                                               *)
(***************************************************************************)
SharesNotNegative(s) ==
    /\ s.totalShares >= 0
    /\ s.esop.shares >= 0
    /\ \A k \in DOMAIN s.founders : s.founders[k].shares >= 0
    /\ \A k \in DOMAIN s.investors : s.investors[k].shares >= 0

C27_ValidatedScenarioFolds ==
    ValidateScenarioOf(scenario) = <<>> =>
        /\ pc # "thrown"
        /\ \A i \in DOMAIN states : states[i].finite /\ SharesNotNegative(states[i])
        /\ \A i \in DOMAIN results : results[i].finite /\ results[i].sharePrice.n > 0

(***************************************************************************)
(* The store                                                               *)
(***************************************************************************)
\* The states st shows are those of the fold r of its scenario: the fold's states,
\* and none when the fold throws.
ShowsFold(st, r) ==
    IF r.throws THEN st.capTableStates = <<>> ELSE st.capTableStates = r.states

\* C28: after any sequence of store actions, whenever currentScenario is not null
\* the stored capTableStates are the fold of that currentScenario; states computed
\* for an earlier scenario or an earlier edit are never kept beside a newer
\* currentScenario, also when the recalculation throws.
C28_StoreConsistency ==
    HasScenario => ShowsFold(store, CalculateCapTable(store.currentScenario))

Chronological(rounds) ==
    \A i \in 1..(Len(rounds) - 1) : rounds[i].timestamp <= rounds[i + 1].timestamp

\* C29: after any sequence of addRound, updateRound and removeRound from a
\* scenario without rounds, currentScenario.rounds is in non-decreasing order of
\* timestamp.  (A loaded scenario holds one round: the scenario createScenario and
\* one addRound produce.)
C29_RoundsChronological ==
    HasScenario => Chronological(store.currentScenario.rounds)

\* C30: whenever exitSimulation is not null and capTableStates is not empty,
\* exitSimulation is simulateExit(last of capTableStates, exitValuation), for every
\* exitValuation, 0 included.
C30_ExitConsistency ==
    (store.exitSimulation.called /\ store.capTableStates # <<>>)
        => store.exitSimulation = SimulateExitOf(Last(store.capTableStates), store.exitValuation)

====
